---- MODULE Spec2Model ----
(***************************************************************************)
(* Model of the Bing search MCP server: the result store of src/index.ts   *)
(* (searchResults, resultIdCounter, cleanupResults, generateResultId), the *)
(* extraction pipeline of bingParser.ts (extractBingSearchResults) and the *)
(* two tool handlers that use them (bing_search, fetch_webpage).           *)
(*                                                                         *)
(* Text is modelled by TLA+ strings, with the JavaScript string functions  *)
(* the code calls written out over them.  Markup is modelled by a sequence *)
(* of top-level elements in document order, each holding a sequence of     *)
(* fragments of fixed HTML shape (see Part); the cheerio queries of the    *)
(* code are evaluated over these.                                          *)
(***************************************************************************)
EXTENDS Integers, Sequences, FiniteSets, TLC

(***************************************************************************)
(* JavaScript string functions                                             *)
(***************************************************************************)
Min(a, b) == IF a <= b THEN a ELSE b

Max(a, b) == IF a >= b THEN a ELSE b

\* s.substring(a, b), 0 <= a <= b
Substring(s, a, b) == SubSeq(s, a + 1, Min(b, Len(s)))

\* s.startsWith(p)
StartsWith(s, p) == Len(s) >= Len(p) /\ SubSeq(s, 1, Len(p)) = p

\* s.indexOf(p) + 1: the 1-based place of the first occurrence of p, 0 if none
IndexOf(s, p) ==
  LET places == {i \in 1..(Len(s) - Len(p) + 1) : SubSeq(s, i, i + Len(p) - 1) = p}
  IN  IF places = {} THEN 0 ELSE CHOOSE i \in places : \A j \in places : i <= j

\* s.includes(p)
Includes(s, p) == IndexOf(s, p) # 0

RECURSIVE TrimLeft(_)
TrimLeft(s) ==
  IF Len(s) > 0 /\ SubSeq(s, 1, 1) = " " THEN TrimLeft(SubSeq(s, 2, Len(s))) ELSE s

RECURSIVE TrimRight(_)
TrimRight(s) ==
  IF Len(s) > 0 /\ SubSeq(s, Len(s), Len(s)) = " "
  THEN TrimRight(SubSeq(s, 1, Len(s) - 1)) ELSE s

\* s.trim()
Trim(s) == TrimRight(TrimLeft(s))

\* s.replace(t, ''): the first occurrence of t removed
RemoveFirst(s, t) ==
  LET i == IndexOf(s, t)
  IN  IF i = 0 THEN s ELSE SubSeq(s, 1, i - 1) \o SubSeq(s, i + Len(t), Len(s))

\* a || b on strings (the empty string is falsy)
Or(a, b) == IF a # "" THEN a ELSE b

\* s.split(sep) for a one-character sep, as a sequence of strings
RECURSIVE Split(_, _)
Split(s, sep) ==
  LET i == IndexOf(s, sep)
  IN  IF i = 0 THEN <<s>>
      ELSE <<SubSeq(s, 1, i - 1)>> \o Split(SubSeq(s, i + 1, Len(s)), sep)

\* parts.join(sep)
RECURSIVE Join(_, _)
Join(parts, sep) ==
  IF parts = <<>> THEN ""
  ELSE IF Len(parts) = 1 THEN parts[1]
  ELSE parts[1] \o sep \o Join(Tail(parts), sep)

(***************************************************************************)
(* new URL(s), for the links of the model: scheme://host[/path][?query].   *)
(* Parsing fails (the constructor throws) when the scheme is not followed  *)
(* by "://" or the host is empty or holds a space.                         *)
(***************************************************************************)
FirstPlace(s, seps) ==
  LET places == {i \in 1..Len(s) : SubSeq(s, i, i) \in seps}
  IN  IF places = {} THEN Len(s) + 1 ELSE CHOOSE i \in places : \A j \in places : i <= j

\* The path and the query of what follows the host, split at place qAt of "?"
PathAndQuery(after, qAt) ==
  [path  |-> IF qAt = 0 THEN Or(after, "/") ELSE Or(SubSeq(after, 1, qAt - 1), "/"),
   query |-> IF qAt = 0 THEN "" ELSE SubSeq(after, qAt + 1, Len(after))]

URLRecord(scheme, host, pq) ==
  [ok       |-> scheme # "" /\ host # "" /\ ~Includes(host, " "),
   scheme   |-> scheme,
   hostname |-> host,
   path     |-> pq.path,
   query    |-> pq.query]

\* What follows "scheme://": the host up to place hEnd, then path and query
AfterHost(after) == PathAndQuery(after, IndexOf(after, "?"))

SplitHost(scheme, rest, hEnd) ==
  URLRecord(scheme, SubSeq(rest, 1, hEnd - 1), AfterHost(SubSeq(rest, hEnd, Len(rest))))

AfterScheme(s, scheme) ==
  SplitHost(scheme, SubSeq(s, Len(scheme) + 4, Len(s)),
            FirstPlace(SubSeq(s, Len(scheme) + 4, Len(s)), {"/", "?"}))

ParseURL(s) ==
  AfterScheme(s, IF StartsWith(s, "https://") THEN "https"
                 ELSE IF StartsWith(s, "http://") THEN "http" ELSE "")

TrackingParams == {"utm_source", "utm_medium", "utm_campaign", "ref", "source"}

ParamName(pair) ==
  LET i == IndexOf(pair, "=") IN IF i = 0 THEN pair ELSE SubSeq(pair, 1, i - 1)

\* A faulty variant of DeleteTracking: the query left as it is
KeepQuery(query) == query

\* url.searchParams.delete(param) for each tracking parameter
DeleteTracking(query) ==
  IF query = "" THEN ""
  ELSE Join(SelectSeq(Split(query, "&"), LAMBDA p : ParamName(p) \notin TrackingParams), "&")

\* url.toString()
URLToString(u) ==
  u.scheme \o "://" \o u.hostname \o u.path \o (IF u.query = "" THEN "" ELSE "?" \o u.query)

(***************************************************************************)
(* The result store: searchResults is a JavaScript Map, modelled as the    *)
(* sequence of its values in insertion order (the order Map.entries()      *)
(* iterates in).  A record is [id, title, link, snippet, timestamp].       *)
(*                                                                         *)
(* Scale: the source keeps at most 1000 records and calls cleanup on every *)
(* 50th accepted record; the model keeps the ratio's shape (the capacity a *)
(* multiple of the period) at MAX_RESULTS = 4 and CleanupEvery = 2 so that *)
(* a run can exceed the capacity.  Times are in milliseconds as in the     *)
(* source.                                                                 *)
(***************************************************************************)
MAX_RESULTS == 4

RESULT_EXPIRATION_MS == 3600000

CleanupEvery == 2

TimerIntervalMs == 1800000

NotFound == [id |-> "", title |-> "", link |-> "", snippet |-> "", timestamp |-> -1]

MapHas(store, id) == \E i \in 1..Len(store) : store[i].id = id

\* searchResults.get(id): the record, or NotFound for undefined
MapGet(store, id) ==
  IF MapHas(store, id)
  THEN store[CHOOSE i \in 1..Len(store) : store[i].id = id]
  ELSE NotFound

\* searchResults.set(rec.id, rec): an existing key keeps its place
MapSet(store, rec) ==
  IF MapHas(store, rec.id)
  THEN [i \in 1..Len(store) |-> IF store[i].id = rec.id THEN rec ELSE store[i]]
  ELSE Append(store, rec)

\* Array.prototype.sort((a, b) => a.timestamp - b.timestamp): stable
RECURSIVE InsertByTimestamp(_, _)
InsertByTimestamp(sorted, r) ==
  IF sorted = <<>> THEN <<r>>
  ELSE IF sorted[Len(sorted)].timestamp <= r.timestamp THEN Append(sorted, r)
  ELSE Append(InsertByTimestamp(SubSeq(sorted, 1, Len(sorted) - 1), r), sorted[Len(sorted)])

RECURSIVE SortByTimestamp(_)
SortByTimestamp(entries) ==
  IF entries = <<>> THEN <<>>
  ELSE InsertByTimestamp(SortByTimestamp(SubSeq(entries, 1, Len(entries) - 1)),
                         entries[Len(entries)])

\* A faulty variant of Expired: the operands of the subtraction exchanged
ExpiredSwapped(r, now) == r.timestamp - now > RESULT_EXPIRATION_MS

\* A faulty variant of Expired: two hours for one
ExpiredLate(r, now) == now - r.timestamp > 2 * RESULT_EXPIRATION_MS

\* The first loop of cleanupResults: delete what is older than one hour
Expired(r, now) == now - r.timestamp > RESULT_EXPIRATION_MS

\* A faulty variant of RemoveExpired: nothing is deleted for its age
RemoveExpiredNever(store, now) == store

RemoveExpired(store, now) == SelectSeq(store, LAMBDA r : ~Expired(r, now))

\* A faulty variant of ToRemove: the slice taken from the newest end
ToRemoveNewest(store) ==
  IF Len(store) > MAX_RESULTS
  THEN SubSeq(SortByTimestamp(store), MAX_RESULTS + 1, Len(store))
  ELSE <<>>

\* A faulty variant of ToRemove: the capacity taken as reached, not exceeded
ToRemoveAtCapacity(store) ==
  IF Len(store) >= MAX_RESULTS
  THEN SubSeq(SortByTimestamp(store), 1, Len(store) - MAX_RESULTS + 1)
  ELSE <<>>

\* The second step of cleanupResults: over capacity, delete the oldest
ToRemove(store) ==
  IF Len(store) > MAX_RESULTS
  THEN SubSeq(SortByTimestamp(store), 1, Len(store) - MAX_RESULTS)
  ELSE <<>>

RemoveOldest(store) ==
  LET gone == {ToRemove(store)[i].id : i \in 1..Len(ToRemove(store))}
  IN  SelectSeq(store, LAMBDA r : r.id \notin gone)

\* A faulty variant of cleanupResults: the capacity pass counts the records
\* the TTL pass has deleted
cleanupCountingExpired(store, now) ==
  SubSeq(RemoveExpired(store, now),
         1 + Min(Len(RemoveExpired(store, now)), Max(Len(store) - MAX_RESULTS, 0)),
         Len(RemoveExpired(store, now)))

cleanupResults(store, now) == RemoveOldest(RemoveExpired(store, now))

\* A faulty variant of generateResultId: the ID without the counter
generateResultIdNoCounter(prefix, counter, now, rnd) ==
  prefix \o "_" \o ToString(now) \o "_" \o rnd

\* generateResultId(prefix) with resultIdCounter already incremented to
\* counter, Date.now() = now and the random suffix rnd
\* (resultIdCounter is a JavaScript number, exact below 2^53: the model
\* takes it as an integer)
generateResultId(prefix, counter, now, rnd) ==
  prefix \o "_" \o ToString(now) \o "_" \o ToString(counter) \o "_" \o rnd

(***************************************************************************)
(* Markup.  A document is the sequence, in document order, of its          *)
(* top-level elements: [parent, tag, cls, inAd, parts], a child of         *)
(* #b_results or #b_topw (parent "b_results", "b_topw") or an element      *)
(* elsewhere (parent "body").  inAd says that an ancestor has class b_ad.  *)
(* parts is the element's content in document order, each part one of      *)
(*   h2a    <h2><a href=H>T</a></h2>                                       *)
(*   h2     <h2>T</h2>                                                     *)
(*   h3     <h3>T</h3>                                                     *)
(*   tpcn   <div class="b_tpcn"><a class="tilk" href=H redirecturl=R       *)
(*            data-h=D><div class="tptt">T</div></a></div>                 *)
(*   title  <div class="b_title"><a href=H>T</a></div>                     *)
(*   blank  <a target="_blank" href=H>T</a>                                *)
(*   a      <a href=H>T</a>                                                *)
(*   capp   <div class="b_caption"><p>T</p></div>                          *)
(*   cap    <div class="b_caption">T</div>                                 *)
(*   snip   <div class="b_snippet">T</div>                                 *)
(*   text   T                                                              *)
(* with hasHref saying that the anchor carries an href attribute.          *)
(***************************************************************************)
Part(kind, text, href) ==
  [kind |-> kind, text |-> text, href |-> href, hasHref |-> href # "",
   redirecturl |-> "", datah |-> ""]

\* An empty cheerio selection: .length is 0, .text() is '', .attr() undefined
NoPart == [kind |-> "none", text |-> "", href |-> "", hasHref |-> FALSE,
           redirecturl |-> "", datah |-> ""]

Element(parent, tag, cls, parts) ==
  [parent |-> parent, tag |-> tag, cls |-> cls, inAd |-> FALSE, parts |-> parts]

\* $(element).find(selector).first(), the selector matching the parts of kinds
FirstOf(parts, kinds) ==
  LET places == {i \in 1..Len(parts) : parts[i].kind \in kinds}
  IN  IF places = {} THEN NoPart
      ELSE parts[CHOOSE i \in places : \A j \in places : i <= j]

\* $(element).text(): the text nodes in document order
RECURSIVE ElementText(_)
ElementText(parts) ==
  IF parts = <<>> THEN "" ELSE parts[1].text \o ElementText(Tail(parts))

AnchorKinds == {"h2a", "tpcn", "title", "blank", "a"}

\* attr('href') || attr('redirecturl') || attr('data-h') || other
AnchorLink(p, other) == Or(p.href, Or(p.redirecturl, Or(p.datah, other)))

resultSelectors == 1..5

\* Whether the element matches resultSelectors[k]
MatchesSelector(k, el) ==
  CASE k = 1 -> el.parent = "b_results" /\ el.tag = "li" /\ "b_algo" \in el.cls
    [] k = 2 -> el.parent = "b_results" /\ el.tag = "li" /\ "b_ans" \in el.cls
    [] k = 3 -> el.parent = "b_results" /\ el.tag = "li"
                /\ el.cls \cap {"b_ad", "b_pag", "b_msg"} = {}
    [] k = 4 -> el.parent = "b_topw" /\ el.tag = "li" /\ "b_algo" \in el.cls
    [] k = 5 -> el.parent = "b_topw" /\ el.tag = "li" /\ "b_ans" \in el.cls

\* $(selector): the matching elements in document order
Select(doc, k) == SelectSeq(doc, LAMBDA el : MatchesSelector(k, el))

(***************************************************************************)
(* The callback of the block pass, up to the generation of the ID: the     *)
(* title, link and snippet of one element.                                 *)
(***************************************************************************)
Found(p) == p.kind # "none"

\* Method 1: h2 a
Method1(h2a) ==
  [title |-> IF Found(h2a) THEN Trim(h2a.text) ELSE "",
   link  |-> IF Found(h2a) THEN h2a.href ELSE ""]

\* Method 2: .b_tpcn, with its .tptt and its a.tilk
Method2(tl, tpcn) ==
  IF (tl.title = "" \/ tl.link = "") /\ Found(tpcn)
  THEN [title |-> Trim(tpcn.text), link |-> AnchorLink(tpcn, tl.link)]
  ELSE tl

\* Method 3: .b_title a, a.tilk, h2 a, a[target="_blank"]
Method3(tl, alt) ==
  IF (tl.title = "" \/ tl.link = "") /\ Found(alt)
  THEN [title |-> IF tl.title = "" THEN Trim(alt.text) ELSE tl.title,
        link  |-> IF tl.link = "" THEN AnchorLink(alt, "") ELSE tl.link]
  ELSE tl

\* Method 4: h2, and the anchor in it
Method4(tl, h2) ==
  IF tl.title = "" /\ Found(h2)
  THEN [title |-> Trim(h2.text),
        link  |-> IF h2.kind = "h2a" /\ tl.link = "" THEN h2.href ELSE tl.link]
  ELSE tl

\* Methods 1 to 4: [title, link]
TitleAndLink(parts) ==
  Method4(Method3(Method2(Method1(FirstOf(parts, {"h2a"})),
                          FirstOf(parts, {"tpcn"})),
                  FirstOf(parts, {"title", "tpcn", "h2a", "blank"})),
          FirstOf(parts, {"h2a", "h2"}))

\* Snippet method 1: .b_caption, its p or its text
Snippet1(cap) == IF Found(cap) THEN Trim(cap.text) ELSE ""

\* Snippet method 2: .b_snippet, .b_lineclamp2, .b_lineclamp3
Snippet2(snippet, snip) ==
  IF snippet = "" /\ Found(snip) THEN Trim(snip.text) ELSE snippet

\* "Limit snippet length"
LimitSnippet(cut) == IF Len(cut) > 200 THEN Substring(cut, 0, 200) \o "..." ELSE cut

\* Snippet method 3: the element's text without the title
Snippet3(snippet, whole, title) ==
  IF snippet # "" THEN snippet
  ELSE IF title # "" /\ Includes(whole, title) THEN LimitSnippet(Trim(RemoveFirst(whole, title)))
  ELSE LimitSnippet(whole)

SnippetOf(parts, title) ==
  Snippet3(Snippet2(Snippet1(FirstOf(parts, {"capp", "cap"})), FirstOf(parts, {"snip"})),
           Trim(ElementText(parts)), title)

\* "Fix incomplete links"
FixLink(link) ==
  IF link # "" /\ ~StartsWith(link, "http")
  THEN IF StartsWith(link, "/newtabredir") \/ StartsWith(link, "/ck/a") THEN ""
       ELSE IF StartsWith(link, "/") THEN "https://cn.bing.com" \o link
       ELSE IF StartsWith(link, "//") THEN "https:" \o link
       ELSE "https://cn.bing.com/" \o link
  ELSE link

\* url.searchParams.delete(...) and url.toString(), or the link as it was
Cleaned(link, u) ==
  IF u.ok THEN URLToString([u EXCEPT !.query = DeleteTracking(u.query)]) ELSE link

\* "Clean up link - remove tracking parameters"; an unparseable link is kept
CleanLink(link) == IF link = "" THEN "" ELSE Cleaned(link, ParseURL(link))

\* A faulty variant of IsAd: the element's own class only
IsAdOwnClass(el) == "b_ad" \in el.cls

\* hasClass('b_ad') || closest('.b_ad').length > 0
IsAd(el) == "b_ad" \in el.cls \/ el.inAd

IsPagOrMsg(el) == "b_pag" \in el.cls \/ "b_msg" \in el.cls

\* "If we have a link but no title": the host, or the element's text
TitleFromLink(u, whole, index) ==
  IF u.ok THEN "Result from " \o u.hostname
  ELSE Or(Substring(whole, 0, 100), "Search Result " \o ToString(index + 1))

\* "If we still don't have a title": a heading, or the element's text
TitleFromText(head, whole, index) ==
  IF head # "" THEN Substring(head, 0, 200)
  ELSE Or(Substring(whole, 0, 50), "Result " \o ToString(index + 1))

\* The first backfill, where the title is empty and the link is not
FirstBackfill(parts, title, link, index) ==
  IF title = "" /\ link # ""
  THEN TitleFromLink(ParseURL(link), Trim(ElementText(parts)), index)
  ELSE title

\* The second backfill, where the title is still empty
SecondBackfill(parts, title, index) ==
  IF title = ""
  THEN TitleFromText(Trim(FirstOf(parts, {"h2a", "h2", "h3", "title", "tpcn"}).text),
                     Trim(ElementText(parts)), index)
  ELSE title

\* The two title backfills, index being the element's place in the selection
BackfillTitle(parts, title, link, index) ==
  SecondBackfill(parts, FirstBackfill(parts, title, link, index), index)

\* "Skip only if we have absolutely nothing useful"
Nothing(title, link, snippet) == title = "" /\ link = "" /\ snippet = ""

Fields(el, title, link, snippet) ==
  [title |-> title, link |-> link, snippet |-> snippet,
   skip |-> IsAd(el) \/ IsPagOrMsg(el) \/ Nothing(title, link, snippet)]

Normalised(el, tl, link, index) ==
  Fields(el, BackfillTitle(el.parts, tl.title, link, index), link, SnippetOf(el.parts, tl.title))

WithTitleAndLink(el, tl, index) == Normalised(el, tl, CleanLink(FixLink(tl.link)), index)

\* The candidate of one element: skip says that the callback returned early
Candidate(el, index) == WithTitleAndLink(el, TitleAndLink(el.parts), index)

(***************************************************************************)
(* One run of extractBingSearchResults, with the callbacks that            *)
(* parseBingSearchResults passes: generateId = generateResultId,           *)
(* saveResult = searchResults.set, cleanup = cleanupResults.  The run      *)
(* threads a record st through the callbacks:                              *)
(*   results   the output list so far                                      *)
(*   store     searchResults                                               *)
(*   counter   resultIdCounter                                             *)
(*   issued    every ID generateResultId has returned (history)            *)
(*   overwrote whether a set() replaced a stored record (history)          *)
(*   stored    every ID a record was stored under (history)                *)
(*   threw     whether the run ended with an exception                     *)
(* Date.now() is constant (now) within a run, and every call of            *)
(* Math.random() in it gives rnd: the case in which timestamp and random   *)
(* suffix cannot tell two IDs apart.                                       *)
(***************************************************************************)
NewId(st, prefix, now, rnd) == generateResultId(prefix, st.counter + 1, now, rnd)

\* The state after generateResultId returned
Issue(st, prefix, now, rnd) ==
  [st EXCEPT !.counter = @ + 1, !.issued = Append(@, NewId(st, prefix, now, rnd))]

\* saveResult(result): searchResults.set(result.id, result)
SaveResult(st, rec) ==
  [st EXCEPT !.store = MapSet(@, rec), !.overwrote = @ \/ MapHas(st.store, rec.id),
             !.stored = @ \cup {rec.id}]

\* results.some(r => r.link === link && link)
IsDuplicate(results, link) ==
  link # "" /\ \E i \in 1..Len(results) : results[i].link = link

\* "Clean up old results periodically"
PeriodicCleanup(st, now) ==
  IF Len(st.results) % CleanupEvery = 0
  THEN [st EXCEPT !.store = cleanupResults(@, now)] ELSE st

\* saveResult(result); cleanup every so often; results.push(result)
Accept(st, rec, now) ==
  [PeriodicCleanup(SaveResult(st, rec), now) EXCEPT !.results = Append(@, rec)]

BlockRecord(id, c, now) ==
  [id |-> id, title |-> c.title, link |-> c.link, snippet |-> c.snippet, timestamp |-> now]

\* A faulty variant of Decide: the duplicate looked for among the stored
\* records, not among the records of this run
DecideAgainstStore(st, c, now, rnd) ==
  IF c.skip THEN st
  ELSE IF IsDuplicate(st.store, c.link) THEN Issue(st, "result", now, rnd)
  ELSE Accept(Issue(st, "result", now, rnd),
              BlockRecord(NewId(st, "result", now, rnd), c, now), now)

\* The callback from "Generate unique ID" on, for the candidate c
Decide(st, c, now, rnd) ==
  IF c.skip THEN st
  ELSE IF IsDuplicate(st.results, c.link) THEN Issue(st, "result", now, rnd)
  ELSE Accept(Issue(st, "result", now, rnd),
              BlockRecord(NewId(st, "result", now, rnd), c, now), now)

\* The callback of $(selector).each for one element that is reached
BlockCallback(st, el, index, now, rnd) == Decide(st, Candidate(el, index), now, rnd)

\* A faulty variant of Enough: "more than" for "at least"
EnoughLate(results, numResults) == Len(results) > numResults

\* if (results.length >= numResults) return false
Enough(results, numResults) == Len(results) >= numResults

\* $(selector).each(...) from the element at place i on
RECURSIVE EachBlock(_, _, _, _, _, _)
EachBlock(st, els, i, numResults, now, rnd) ==
  IF i > Len(els) \/ Enough(st.results, numResults) THEN st
  ELSE EachBlock(BlockCallback(st, els[i], i - 1, now, rnd), els, i + 1, numResults, now, rnd)

\* for (const selector of resultSelectors), from selector k on
RECURSIVE SelectorLoop(_, _, _, _, _, _)
\* "Continue trying other selectors if we haven't found enough results yet"
AfterSelector(after, doc, k, numResults, now, rnd) ==
  IF Enough(after.results, numResults) THEN after
  ELSE SelectorLoop(after, doc, k + 1, numResults, now, rnd)

SelectorLoop(st, doc, k, numResults, now, rnd) ==
  IF k > 5 THEN st
  ELSE AfterSelector(EachBlock(st, Select(doc, k), 1, numResults, now, rnd),
                     doc, k, numResults, now, rnd)

\* $('#b_results a[href], #b_topw a[href], .b_algo a[href], .b_ans a[href]'):
\* each anchor with the element that holds it
InContainer(el) ==
  el.parent \in {"b_results", "b_topw"} \/ el.cls \cap {"b_algo", "b_ans"} # {}

Anchors(el, as) == [i \in 1..Len(as) |-> [part |-> as[i], el |-> el]]

AnchorsOf(el) ==
  IF InContainer(el)
  THEN Anchors(el, SelectSeq(el.parts, LAMBDA p : p.kind \in AnchorKinds /\ p.hasHref))
  ELSE <<>>

RECURSIVE LinkContainers(_)
LinkContainers(doc) ==
  IF doc = <<>> THEN <<>> ELSE AnchorsOf(doc[1]) \o LinkContainers(Tail(doc))

\* $el.closest('li, .b_algo, .b_ans'), as the content of what it finds
Closest(el) ==
  IF el.tag = "li" \/ el.cls \cap {"b_algo", "b_ans"} # {} THEN el.parts ELSE <<>>

\* "Ensure link is a complete URL"
FullLink(link) ==
  IF StartsWith(link, "http") THEN link
  ELSE IF StartsWith(link, "/") THEN "https://cn.bing.com" \o link
  ELSE "https://cn.bing.com/" \o link

\* The anchors the last-resort pass returns early on
SkipAnchor(link) ==
  \/ link = "" \/ link = "#" \/ StartsWith(link, "javascript:") \/ Includes(link, "/search?")
  \/ Includes(FullLink(link), "bing.com/search") \/ Includes(FullLink(link), "bing.com/ck")

\* A faulty variant of TitleNear: the anchor's own text only
TitleNearOwn(own, ctx, index) == own

\* "If no title, try to get from parent elements"
TitleNear(own, ctx, index) ==
  IF own = "" \/ Len(own) < 3
  THEN Or(Trim(FirstOf(ctx, {"h2a", "h2", "tpcn", "title"}).text),
          Or(Trim(FirstOf(ctx, {"h2a", "h2"}).text), "Result " \o ToString(index + 1)))
  ELSE own

AnchorTitle(a, index) == TitleNear(Trim(a.part.text), Closest(a.el), index)

\* "Get snippet from nearby elements"
AnchorSnippet(a) == Trim(FirstOf(Closest(a.el), {"capp", "cap", "snip"}).text)

AnchorRecord(id, title, full, snippet, now) ==
  [id |-> id, title |-> Substring(title, 0, 200), link |-> full,
   snippet |-> Substring(snippet, 0, 300), timestamp |-> now]

\* saveResult(result); results.push(result)
AcceptAnchor(st, rec) == [SaveResult(st, rec) EXCEPT !.results = Append(@, rec)]

\* From the snippet on: new URL(fullLink) throws when there is no snippet
\* nearby and the link does not parse
FromSnippet(st, a, index, full, near, u, now, rnd) ==
  IF near = "" /\ ~u.ok THEN [st EXCEPT !.threw = TRUE]
  ELSE AcceptAnchor(Issue(st, "result_link", now, rnd),
                    AnchorRecord(NewId(st, "result_link", now, rnd), AnchorTitle(a, index), full,
                                 Or(near, "Result from " \o u.hostname), now))

WithLink(st, a, index, link, now, rnd) ==
  IF SkipAnchor(link) THEN st
  ELSE FromSnippet(st, a, index, FullLink(link), AnchorSnippet(a), ParseURL(FullLink(link)),
                   now, rnd)

\* The callback of linkContainers.each for one anchor that is reached
AnchorCallback(st, a, index, now, rnd) ==
  WithLink(st, a, index, AnchorLink(a.part, ""), now, rnd)

RECURSIVE EachAnchor(_, _, _, _, _, _)
EachAnchor(st, as, i, numResults, now, rnd) ==
  IF i > Len(as) \/ Enough(st.results, numResults) \/ st.threw THEN st
  ELSE EachAnchor(AnchorCallback(st, as[i], i - 1, now, rnd), as, i + 1, numResults, now, rnd)

\* A faulty variant of LastResort: the pass run whenever the list is short
LastResortWhenShort(st, doc, numResults, now, rnd) ==
  IF Len(st.results) < numResults THEN EachAnchor(st, LinkContainers(doc), 1, numResults, now, rnd)
  ELSE st

\* "If still no results found ..."
LastResort(st, doc, numResults, now, rnd) ==
  IF Len(st.results) = 0 THEN EachAnchor(st, LinkContainers(doc), 1, numResults, now, rnd)
  ELSE st

extractBingSearchResults(st, doc, numResults, now, rnd) ==
  LastResort(SelectorLoop([st EXCEPT !.results = <<>>, !.threw = FALSE], doc, 1, numResults, now, rnd),
             doc, numResults, now, rnd)

\* "If still no results found, add a generic result"
Placeholder(id, query, searchUrl, now) ==
  [id |-> id,
   title |-> "Search Results: " \o query,
   link |-> searchUrl,
   snippet |-> "Unable to parse search results for \"" \o query
               \o "\", but you can visit the Bing search page directly.",
   timestamp |-> now]

\* searchResults.set(id, result); results.push(result)
WithPlaceholder(st, rec) == [SaveResult(st, rec) EXCEPT !.results = <<rec>>]

AfterExtract(run, query, searchUrl, now, rnd) ==
  IF run.threw THEN run
  ELSE IF Len(run.results) = 0
  THEN WithPlaceholder(Issue(run, "result_fallback", now, rnd),
                       Placeholder(NewId(run, "result_fallback", now, rnd), query, searchUrl, now))
  ELSE run

\* parseBingSearchResults: the run, and the placeholder when it returns nothing
parseBingSearchResults(st, doc, query, searchUrl, numResults, now, rnd) ==
  AfterExtract(extractBingSearchResults(st, doc, numResults, now, rnd),
               query, searchUrl, now, rnd)

(***************************************************************************)
(* The markup the model runs on: every sequence of at most MaxBlocks of    *)
(* the elements below.                                                     *)
(***************************************************************************)
MaxBlocks == 2

MaxNumResults == 2

\* <li class="b_algo"><h2><a href="https://a.example/x">Alpha</a></h2>
\*   <div class="b_caption"><p>About alpha</p></div></li>
BAlgo ==
  Element("b_results", "li", {"b_algo"},
          <<Part("h2a", "Alpha", "https://a.example/x"), Part("capp", "About alpha", "")>>)

\* The same target behind a tracking parameter, under another title
BAlgoTracked ==
  Element("b_results", "li", {"b_algo"},
          <<Part("h2a", "Alpha again", "https://a.example/x?ref=1"), Part("snip", "More alpha", "")>>)

\* <li class="b_ans"><h2><a href="/answers?q=1">Answer</a></h2> 42</li>
BAns ==
  Element("b_results", "li", {"b_ans"},
          <<Part("h2a", "Answer", "/answers?q=1"), Part("text", " 42", "")>>)

\* <li class="b_ad"><h2><a href="https://ad.example/">Buy</a></h2></li>
BAd ==
  Element("b_results", "li", {"b_ad"}, <<Part("h2a", "Buy", "https://ad.example/")>>)

\* <li class="b_algo"><h2>Foo</h2></li>
BHeading == Element("b_results", "li", {"b_algo"}, <<Part("h2", "Foo", "")>>)

\* <li class="b_algo"></li>
BEmpty == Element("b_results", "li", {"b_algo"}, <<>>)

\* <li><a target="_blank" href="https://p.example">Plain</a> plain text</li>
BPlain ==
  Element("b_results", "li", {},
          <<Part("blank", "Plain", "https://p.example"), Part("text", " plain text", "")>>)

\* <li class="b_pag"><a href="/search?q=x&first=11">2</a></li>
BPag == Element("b_results", "li", {"b_pag"}, <<Part("a", "2", "/search?q=x&first=11")>>)

\* #b_topw > <li class="b_algo"><div class="b_tpcn">...Top...</div></li>
BTop ==
  Element("b_topw", "li", {"b_algo"}, <<Part("tpcn", "Top", "https://t.example/top")>>)

\* #b_results > <div><a href="https://d.example/1">Link one</a></div>
BLinks == Element("b_results", "div", {}, <<Part("a", "Link one", "https://d.example/1")>>)

\* #b_results > <div><a href="http://">Broken</a></div>
BBroken == Element("b_results", "div", {}, <<Part("a", "Broken", "http://")>>)

\* #b_results > <div><a href="https://i.example/"></a></div>
BIcon == Element("b_results", "div", {}, <<Part("a", "", "https://i.example/")>>)

\* <li class="b_algo"><h2><a href="https://h.example/"></a></h2></li>
BUntitled == Element("b_results", "li", {"b_algo"}, <<Part("h2a", "", "https://h.example/")>>)

Blocks ==
  {BAlgo, BAlgoTracked, BAns, BAd, BHeading, BEmpty, BPlain, BPag, BTop, BLinks, BBroken,
   BIcon, BUntitled}

Docs == UNION {[1..k -> Blocks] : k \in 0..MaxBlocks}

NumResultsRange == (-1)..MaxNumResults

\* Math.random().toString(36).substring(2, 9): empty when Math.random() is 0
Randoms == {"", "k3x9q2a"}

(***************************************************************************)
(* The server: requests, the timer and the clock                           *)
(***************************************************************************)
MaxSearches == 2

Minute == RESULT_EXPIRATION_MS \div 60

\* The values Date.now() takes, from the start of the process (0): records
\* of one hour exactly, of more and of less
TimePoints == {0, 60 * Minute, 61 * Minute}

\* Six <li class="b_algo">, the second a duplicate of the first: five records
DocMany == <<BAlgo, BAlgoTracked, BUntitled, BHeading, BEmpty, BEmpty>>

\* Two anchors outside any <li>: two records of the last-resort pass
DocLinks == <<BLinks, BLinks>>

\* Only a pagination block, whose anchor the last-resort pass skips: no
\* record (an advertisement's anchor would give a last-resort record)
DocNone == <<BPag>>

\* An anchor whose href new URL() rejects
DocBroken == <<BBroken>>

\* A page without #b_results and without .b_algo
DocBlocked == <<>>

\* The pages the server model receives
ServerDocs == {DocMany, DocLinks, DocNone, DocBroken, DocBlocked}

\* The num_results of the server model's requests
ServerNumResults == {5}

\* The random suffix of the server model: the same in every ID
ServerRandoms == {"k3x9q2a"}

\* htmlContent.includes('b_results') || htmlContent.includes('b_algo')
HasStructure(doc) ==
  \E i \in 1..Len(doc) : doc[i].parent = "b_results" \/ "b_algo" \in doc[i].cls

\* An ID a caller may present that no search returned
UnknownIds == {"result_1_1_"}

\* The message of the error fetchWebpageContent throws when the lookup finds
\* nothing, a fixed text around the id, in ASCII
NotFoundMessage(id) == "no search result with ID " \o id

\* The "fetch failed" prefix that the catch block of fetchWebpageContent and
\* the catch block of the fetch_webpage handler each put before the message,
\* in ASCII
FetchFailed(message) == "fetch failed: " \o message

(***************************************************************************)
(* State                                                                   *)
(***************************************************************************)
VARIABLES
  searchResults,    \* the Map of index.ts, as the sequence of its values
  resultIdCounter,  \* the counter of generateResultId
  now,              \* Date.now()
  timerDue,         \* when the setInterval callback of main() fires next
  search,           \* search[s]: the bing_search / searchBing request s
  fetching,         \* the fetch_webpage request in flight, or NoFetch
  issued,           \* history: every ID generateResultId returned
  overwrote,        \* history: a set() replaced a stored record
  stored,           \* history: every ID a record was stored under
  last              \* the step that just completed, with what it returned

vars == <<searchResults, resultIdCounter, now, timerDue, search, fetching,
          issued, overwrote, stored, last>>

SearchSlots == 1..MaxSearches

IdleSearch == [pc |-> "idle", kind |-> "", query |-> "", numResults |-> 0]

\* timestamp is that of the record the lookup returned (the result of line 835)
NoFetch == [id |-> "", url |-> "", timestamp |-> 0, active |-> FALSE]

\* The run record of the current state
Here == [results |-> <<>>, store |-> searchResults, counter |-> resultIdCounter,
         issued |-> issued, overwrote |-> overwrote, stored |-> stored, threw |-> FALSE]

NoOp == [op |-> "init", results |-> <<>>, threw |-> FALSE, numResults |-> 0, doc |-> <<>>,
         before |-> <<>>, counterBefore |-> 0, id |-> "", text |-> "", launched |-> FALSE,
         first |-> <<>>]

\* The state a run leaves, and the record of it in last
Leave(op, run, numResults, doc, first) ==
  /\ searchResults' = run.store
  /\ resultIdCounter' = run.counter
  /\ issued' = run.issued
  /\ overwrote' = run.overwrote
  /\ stored' = run.stored
  /\ last' = [NoOp EXCEPT !.op = op, !.results = run.results, !.threw = run.threw,
                          !.numResults = numResults, !.doc = doc,
                          !.before = searchResults, !.counterBefore = resultIdCounter,
                          !.first = first]

Init ==
  /\ searchResults = <<>>
  /\ resultIdCounter = 0
  /\ now = 0
  /\ timerDue = TimerIntervalMs
  /\ search = [s \in SearchSlots |-> IdleSearch]
  /\ fetching = NoFetch
  /\ issued = <<>>
  /\ overwrote = FALSE
  /\ stored = {}
  /\ last = NoOp

(***************************************************************************)
(* Spec: the server.  A search request s is started (StartSearch), awaits  *)
(* its page, then runs parseBingSearchResults on the page that arrived in  *)
(* one synchronous step (SearchParse) or fails (SearchFail), and returns   *)
(* once the browser is closed (SearchReturn).  kind "browser" is           *)
(* searchBingWithBrowser, the function the bing_search tool calls; kind    *)
(* "axios" is searchBing, which turns every failure into a stored error    *)
(* record.  last.op is "other" after a step that leaves the store alone.   *)
(***************************************************************************)
Other == [NoOp EXCEPT !.op = "other"]

StartSearch(s) ==
  /\ search[s].pc = "idle"
  /\ \A t \in SearchSlots : t < s => search[t].pc # "idle"
  /\ \E kind \in {"browser", "axios"}, n \in ServerNumResults :
       search' = [search EXCEPT ![s] = [IdleSearch EXCEPT !.pc = "awaiting", !.kind = kind,
                                          !.query = "tla", !.numResults = n]]
  /\ last' = Other
  /\ UNCHANGED <<searchResults, resultIdCounter, now, timerDue, fetching, issued, overwrote, stored>>

\* `https://cn.bing.com/search?q=${encodeURIComponent(query)}`, for a query
\* that encodeURIComponent leaves as it is
SearchUrl(query) == "https://cn.bing.com/search?q=" \o query

\* The searchUrl handed to parseBingSearchResults: the URL searchBing builds,
\* which is also taken for the page.url() of searchBingWithBrowser
RequestUrl(query) == SearchUrl(query) \o "&setlang=zh-CN&ensearch=0"

\* The record the catch block of searchBing stores and returns
ErrorResult(id, query, message, at) ==
  [id |-> id,
   title |-> "search error: " \o query,
   link |-> SearchUrl(query),
   snippet |-> "error while searching: " \o message,
   timestamp |-> at]

WithError(st, rec) == [SaveResult(st, rec) EXCEPT !.results = <<rec>>, !.threw = FALSE]

\* The catch block of searchBing
Caught(run, r, at, rnd) ==
  IF run.threw /\ r.kind = "axios"
  THEN WithError(Issue(run, "error", at, rnd),
                 ErrorResult(NewId(run, "error", at, rnd), r.query, "failed", at))
  ELSE run

\* What a search does once its await ends: with a page, the structure check
\* and parseBingSearchResults; without one (arrived = FALSE) the error; and
\* for searchBing the catch block
SearchOutcome(st, r, arrived, doc, at, rnd) ==
  Caught(IF arrived /\ HasStructure(doc)
         THEN parseBingSearchResults(st, doc, r.query, RequestUrl(r.query), r.numResults, at, rnd)
         ELSE [st EXCEPT !.threw = TRUE],
         r, at, rnd)

\* The state a search leaves when its await ended with out; what is left of
\* the request is its position
LeaveSearch(s, op, out, doc) ==
  /\ Leave(op, out, search[s].numResults, doc, <<>>)
  /\ search' = [search EXCEPT ![s] = [IdleSearch EXCEPT !.pc = "closing"]]

SearchParse(s) ==
  /\ search[s].pc = "awaiting"
  /\ \E doc \in ServerDocs, rnd \in ServerRandoms :
       LeaveSearch(s, "parse", SearchOutcome(Here, search[s], TRUE, doc, now, rnd), doc)
  /\ UNCHANGED <<now, timerDue, fetching>>

\* The browser or the request failed before any page arrived
SearchFail(s) ==
  /\ search[s].pc = "awaiting"
  /\ \E rnd \in ServerRandoms :
       LeaveSearch(s, "fail", SearchOutcome(Here, search[s], FALSE, <<>>, now, rnd), <<>>)
  /\ UNCHANGED <<now, timerDue, fetching>>

\* The tool handler returns its text response
SearchReturn(s) ==
  /\ search[s].pc = "closing"
  /\ search' = [search EXCEPT ![s].pc = "done"]
  /\ last' = Other
  /\ UNCHANGED <<searchResults, resultIdCounter, now, timerDue, fetching, issued, overwrote, stored>>

\* A faulty variant of Lookup: the lookup without the cleanup before it
LookupStale(store, id, at) == MapGet(store, id)

\* fetchWebpageContent(id) up to its first await: cleanup and lookup
Lookup(store, id, at) == MapGet(cleanupResults(store, at), id)

\* A faulty variant of AfterGet: the read sets the record's timestamp to now
AfterGetTouched(store, id, at) ==
  [i \in 1..Len(store) |->
     IF store[i].id = id THEN [store[i] EXCEPT !.timestamp = at] ELSE store[i]]

\* The Map after searchResults.get(resultId): get() changes nothing
AfterGet(store, id, at) == store

\* What the lookup leaves: the not-found response, or a fetch in flight
Looked(id, result) ==
  IF result = NotFound
  THEN /\ fetching' = NoFetch
       /\ last' = [NoOp EXCEPT !.op = "fetchNotFound", !.id = id, !.before = searchResults, !.counterBefore = resultIdCounter,
                     !.text = FetchFailed(FetchFailed(NotFoundMessage(id)))]
  ELSE /\ fetching' = [id |-> id, url |-> result.link, timestamp |-> result.timestamp,
                       active |-> TRUE]
       /\ last' = [NoOp EXCEPT !.op = "fetchFound", !.id = id, !.before = searchResults, !.counterBefore = resultIdCounter,
                     !.results = <<result>>, !.launched = TRUE]

\* fetch_webpage(id), up to the first await of fetchWebpageContent: cleanup,
\* lookup, and the not-found response if there is no record.  The id is one
\* that a record was stored under at some time, or one of UnknownIds.
FetchStart ==
  /\ ~fetching.active
  /\ \E id \in stored \cup UnknownIds :
       /\ Looked(id, Lookup(searchResults, id, now))
       /\ searchResults' = AfterGet(cleanupResults(searchResults, now), id, now)
  /\ UNCHANGED <<resultIdCounter, now, timerDue, search, issued, overwrote, stored>>

\* The navigation ended, with the page's text or with an error
FetchDone ==
  /\ fetching.active
  /\ fetching' = NoFetch
  /\ last' = Other
  /\ UNCHANGED <<searchResults, resultIdCounter, now, timerDue, search, issued, overwrote, stored>>

\* setInterval(() => cleanupResults(), 30 * 60 * 1000)
TimerCleanup ==
  /\ now >= timerDue
  /\ searchResults' = cleanupResults(searchResults, now)
  /\ timerDue' = now + TimerIntervalMs
  /\ last' = [NoOp EXCEPT !.op = "timer", !.before = searchResults, !.counterBefore = resultIdCounter]
  /\ UNCHANGED <<resultIdCounter, now, search, fetching, issued, overwrote, stored>>

\* Time passes.  The timer's callback runs when the event loop gets to it,
\* at the moment it is due or later.
Tick ==
  /\ \E t \in TimePoints : t > now /\ now' = t
  /\ last' = Other
  /\ UNCHANGED <<searchResults, resultIdCounter, timerDue, search, fetching, issued, overwrote, stored>>

Next ==
  \/ \E s \in SearchSlots : StartSearch(s) \/ SearchParse(s) \/ SearchFail(s) \/ SearchReturn(s)
  \/ FetchStart
  \/ FetchDone
  \/ TimerCleanup
  \/ Tick

Spec == Init /\ [][Next]_vars

\* The server with a clock that goes on to 91 minutes, where the timer is due
\* again after a callback at 60 or 61 minutes, and with a clock that does
\* advance and a timer callback that does run when it is due
TickLive ==
  /\ \E t \in TimePoints \cup {91 * Minute} : t > now /\ now' = t
  /\ last' = Other
  /\ UNCHANGED <<searchResults, resultIdCounter, timerDue, search, fetching, issued, overwrote, stored>>

NextLive ==
  \/ \E s \in SearchSlots : StartSearch(s) \/ SearchParse(s) \/ SearchFail(s) \/ SearchReturn(s)
  \/ FetchStart
  \/ FetchDone
  \/ TimerCleanup
  \/ TickLive

SpecLive == Init /\ [][NextLive]_vars /\ WF_vars(TickLive) /\ WF_vars(TimerCleanup)

(***************************************************************************)
(* SpecCall: one call, in a fresh process, of extractBingSearchResults or   *)
(* of searchBing (a request that ends with a page or with a failure, then  *)
(* parseBingSearchResults and the catch block), on every document of Docs  *)
(* and every numResults of NumResultsRange; or of                          *)
(* extractBingSearchResults on one block with a link of LinkInputs; or of  *)
(* parseBingSearchResults alone (ParseCall).  After a call of              *)
(* extractBingSearchResults a second call on the same input may follow     *)
(* (AgainCall).                                                            *)
(***************************************************************************)
ExtractCall ==
  /\ last.op = "init"
  /\ \E doc \in Docs, numResults \in NumResultsRange, rnd \in Randoms :
       Leave("extract", extractBingSearchResults(Here, doc, numResults, now, rnd),
             numResults, doc, <<>>)
  /\ UNCHANGED <<now, timerDue, search, fetching>>

AxiosSearch(numResults) ==
  [IdleSearch EXCEPT !.kind = "axios", !.query = "tla", !.numResults = numResults]

SearchBingCall ==
  /\ last.op = "init"
  /\ \E doc \in Docs, numResults \in NumResultsRange, rnd \in Randoms, arrived \in BOOLEAN :
       Leave("searchBing",
             SearchOutcome(Here, AxiosSearch(numResults), arrived, doc, now, rnd),
             numResults, doc, <<>>)
  /\ UNCHANGED <<now, timerDue, search, fetching>>

\* The links the block pass is run on: a prefix, a host or path, and query
\* parameters
LinkPrefixes == {"https://", "http://", "//", "/", ""}

LinkRests ==
  {"cdn.example.com/a", "foo", "foo/b", "ck/a", "newtabredir/x", "cn.bing.com/ck/a"}

Param(name, value) == [name |-> name, value |-> value]

LinkParams ==
  {<<>>,
   <<Param("utm_source", "x")>>,
   <<Param("keep", "1")>>,
   <<Param("q", "1"), Param("ref", "2")>>,
   <<Param("utm_medium", "a"), Param("id", "7"), Param("source", "b")>>,
   <<Param("utm_campaign", "c"), Param("ref", "r")>>,
   <<Param("a", "1"), Param("b", "2")>>}

LinkInputs == [pre : LinkPrefixes, rest : LinkRests, params : LinkParams]

\* "?name=value&..." for the parameters, nothing for none
QueryText(params) ==
  IF params = <<>> THEN ""
  ELSE "?" \o Join([i \in 1..Len(params) |-> params[i].name \o "=" \o params[i].value], "&")

Href(input) == input.pre \o input.rest \o QueryText(input.params)

\* <li class="b_algo"><h2><a href=HREF>Linked</a></h2></li>
LinkBlock(input) ==
  Element("b_results", "li", {"b_algo"}, <<Part("h2a", "Linked", Href(input))>>)

\* One call of extractBingSearchResults on a page of one block with the link
LinkCall ==
  /\ last.op = "init"
  /\ \E input \in LinkInputs :
       Leave("link", extractBingSearchResults(Here, <<LinkBlock(input)>>, 1, now, "k3x9q2a"),
             1, <<LinkBlock(input)>>, <<>>)
  /\ UNCHANGED <<now, timerDue, search, fetching>>

\* A second call of extractBingSearchResults on the document and numResults
\* of the call that has just returned, in the process as that call left it
\* and at the same clock value or 61 minutes later; last.first is what the
\* first call returned
AgainCall ==
  /\ last.op = "extract"
  /\ \E at \in {0, 61 * Minute}, rnd \in Randoms :
       /\ now' = at
       /\ Leave("again", extractBingSearchResults(Here, last.doc, last.numResults, at, rnd),
                last.numResults, last.doc, last.results)
  /\ UNCHANGED <<timerDue, search, fetching>>

\* One call of parseBingSearchResults, with the query and the search URL of
\* a search for "tla"
ParseCall ==
  /\ last.op = "init"
  /\ \E doc \in Docs, numResults \in NumResultsRange, rnd \in Randoms :
       Leave("parseCall",
             parseBingSearchResults(Here, doc, "tla", RequestUrl("tla"), numResults, now, rnd),
             numResults, doc, <<>>)
  /\ UNCHANGED <<now, timerDue, search, fetching>>

\* The blocks the title strategies are run on: an h2 with an anchor, a
\* .b_tpcn with its .tptt and a.tilk, a .b_title anchor and a bare h2, each
\* present or not, with or without text and href, in this order
Maybe(ps) == {<<>>} \cup {<<p>> : p \in ps}

TitleParts ==
  {h2a \o tpcn \o title \o h2 :
     h2a \in Maybe({Part("h2a", "Alpha", ""), Part("h2a", "Alpha", "https://a.example/x"),
                    Part("h2a", "", "https://a.example/x")}),
     tpcn \in Maybe({Part("tpcn", "Beta", "https://t.example/"), Part("tpcn", "", "https://t.example/"),
                     Part("tpcn", "Beta", "")}),
     title \in Maybe({Part("title", "Gamma", "https://g.example/")}),
     h2 \in Maybe({Part("h2", "Delta", "")})}

TitleBlock(parts) == Element("b_results", "li", {"b_algo"}, parts)

\* One call of extractBingSearchResults on one block of TitleParts
TitleCall ==
  /\ last.op = "init"
  /\ \E parts \in TitleParts :
       Leave("title", extractBingSearchResults(Here, <<TitleBlock(parts)>>, 1, now, "k3x9q2a"),
             1, <<TitleBlock(parts)>>, <<>>)
  /\ UNCHANGED <<now, timerDue, search, fetching>>

\* Elements that a block selector matches and the block pass must skip:
\* <li class="b_algo b_ad">, <li class="b_ans b_pag">, <li class="b_algo b_msg">,
\* each with <h2><a href="https://ad.example/">Buy</a></h2>, and the same
\* <li class="b_algo"> inside a .b_ad container
SkipBlock(cls, inAd) ==
  [Element("b_results", "li", cls, <<Part("h2a", "Buy", "https://ad.example/")>>)
     EXCEPT !.inAd = inAd]

SkippedBlocks ==
  {SkipBlock({"b_algo", "b_ad"}, FALSE), SkipBlock({"b_ans", "b_pag"}, FALSE),
   SkipBlock({"b_algo", "b_msg"}, FALSE), SkipBlock({"b_algo"}, TRUE), BAd, BPag}

\* The documents of one or two blocks with a block of SkippedBlocks
SkipDocs ==
  {<<x>> : x \in SkippedBlocks}
    \cup {<<x, y>> : x \in SkippedBlocks, y \in SkippedBlocks \cup {BAlgo, BAns}}
    \cup {<<y, x>> : x \in SkippedBlocks, y \in {BAlgo, BAns}}

\* One call of extractBingSearchResults on a document of SkipDocs
SkipCall ==
  /\ last.op = "init"
  /\ \E doc \in SkipDocs, numResults \in 1..MaxNumResults :
       Leave("skip", extractBingSearchResults(Here, doc, numResults, now, "k3x9q2a"),
             numResults, doc, <<>>)
  /\ UNCHANGED <<now, timerDue, search, fetching>>

\* The text of n times s
RECURSIVE Repeat(_, _)
Repeat(s, n) == IF n = 0 THEN "" ELSE s \o Repeat(s, n - 1)

\* The blocks the snippet strategies are run on: a titled and linked element
\* with a caption paragraph, a caption text, a line-clamped summary or plain
\* text of 150, 250 or 350 characters; as <li class="b_algo">, which the
\* block pass takes, and as <li class="b_ad">, which is left to the pass
\* over the anchors
SnippetBlocks ==
  {Element("b_results", "li", {cls},
           <<Part("h2a", "Alpha", "https://a.example/x"), Part(kind, Repeat("0123456789", n), "")>>) :
     cls \in {"b_algo", "b_ad"}, kind \in {"capp", "cap", "snip", "text"}, n \in {15, 25, 35}}

\* One call of extractBingSearchResults on one block of SnippetBlocks
SnippetCall ==
  /\ last.op = "init"
  /\ \E el \in SnippetBlocks :
       Leave("snippet", extractBingSearchResults(Here, <<el>>, 1, now, "k3x9q2a"),
             1, <<el>>, <<>>)
  /\ UNCHANGED <<now, timerDue, search, fetching>>

\* #b_results > <div><a href="https://d.example/i">Link i</a></div>, n times
ManyLinks(n) ==
  [i \in 1..n |->
     Element("b_results", "div", {},
             <<Part("a", "Link " \o ToString(i), "https://d.example/" \o ToString(i))>>)]

\* One search (parseBingSearchResults) that asks for as many results as the
\* page has anchors, on pages of up to MAX_RESULTS + CleanupEvery + 1 anchors
BulkCall ==
  /\ last.op = "init"
  /\ \E n \in 1..(MAX_RESULTS + CleanupEvery + 1) :
       Leave("bulk",
             parseBingSearchResults(Here, ManyLinks(n), "tla", RequestUrl("tla"), n, now, "k3x9q2a"),
             n, ManyLinks(n), <<>>)
  /\ UNCHANGED <<now, timerDue, search, fetching>>

NextCall ==
  \/ ExtractCall \/ SearchBingCall \/ LinkCall \/ AgainCall \/ ParseCall \/ TitleCall
  \/ SkipCall \/ SnippetCall \/ BulkCall

SpecCall == Init /\ [][NextCall]_vars

(***************************************************************************)
(* Properties                                                              *)
(***************************************************************************)
Range(seq) == {seq[i] : i \in 1..Len(seq)}

SameFields(a, b) == a.title = b.title /\ a.link = b.link /\ a.snippet = b.snippet

Age(r) == now - r.timestamp

\* The records of store that are at most one hour old at the current time
Young(store) == SelectSeq(store, LAMBDA r : Age(r) <= RESULT_EXPIRATION_MS)

\* A step that ran cleanupResults as its only change to the store
AfterCleanup == last.op \in {"timer", "fetchFound", "fetchNotFound"}

\* C1: a run of extractBingSearchResults returns at most max(numResults, 0)
\* records, and for numResults <= 0 it returns the empty list, generates no
\* ID and stores no record.
C1_LengthBound ==
  last.op = "extract" =>
    /\ Len(last.results) <= Max(last.numResults, 0)
    /\ last.numResults <= 0 =>
         /\ last.results = <<>>
         /\ resultIdCounter = last.counterBefore
         /\ issued = <<>>
         /\ searchResults = last.before

\* A run that stopped at numResults = 1 on a document with two acceptable blocks
C1_Witness ==
  /\ last.op = "extract"
  /\ last.doc = <<BAlgo, BAns>>
  /\ last.numResults = 1
  /\ Len(last.results) = 1
  /\ Len(searchResults) = 1

\* C2: in the list one run of extractBingSearchResults returns, no two
\* records at different places have the same non-empty link, whichever pass
\* produced them.
C2_NoDuplicateLinks ==
  last.op = "extract" =>
    \A i, j \in 1..Len(last.results) :
      i # j /\ last.results[i].link = last.results[j].link => last.results[i].link = ""

\* C3: every ID generateResultId returns differs from every ID it returned
\* before, for every prefix, at an unchanged clock and random suffix and with
\* searches interleaving at their awaits; and no set() replaces a stored
\* record.
C3_IdsUnique ==
  /\ \A i, j \in 1..Len(issued) : i # j => issued[i] # issued[j]
  /\ ~overwrote

\* Two searches in flight together, both past their parse in the same
\* millisecond, with IDs of the prefixes result and result_link
C3_Witness ==
  /\ search[1].pc = "closing" /\ search[2].pc = "closing"
  /\ now = 0
  /\ \E i, j \in 1..Len(issued) :
       /\ StartsWith(issued[i], "result_0_")
       /\ StartsWith(issued[j], "result_link_0_")

\* C4: right after a search has produced its list, every record of the list
\* is in the store under its id with the same title, link and snippet.
C4_ReturnedIdsResolve ==
  last.op \in {"parse", "fail"} /\ ~last.threw =>
    \A i \in 1..Len(last.results) :
      /\ MapHas(searchResults, last.results[i].id)
      /\ SameFields(MapGet(searchResults, last.results[i].id), last.results[i])

\* C5: after cleanupResults the store holds no record older than one hour,
\* and every record younger than one hour is still there unless more than
\* MAX_RESULTS such records were present; a lookup finds a record of age 59
\* minutes and does not find one of age 61 minutes.
C5_Expiry ==
  AfterCleanup =>
    /\ \A r \in Range(searchResults) : ~(Age(r) > RESULT_EXPIRATION_MS)
    /\ Len(Young(last.before)) <= MAX_RESULTS =>
         \A r \in Range(last.before) : Age(r) < RESULT_EXPIRATION_MS => r \in Range(searchResults)
    /\ \A r \in Range(last.before) :
         r.id = last.id /\ Age(r) > RESULT_EXPIRATION_MS => last.op = "fetchNotFound"
    /\ \A r \in Range(last.before) :
         /\ r.id = last.id /\ Age(r) < RESULT_EXPIRATION_MS
         /\ Len(Young(last.before)) <= MAX_RESULTS
         => last.op = "fetchFound" /\ last.results = <<r>>

\* A lookup, 61 minutes after its insertion, of a record that was in the store
C5_Witness ==
  /\ last.op = "fetchNotFound"
  /\ \E r \in Range(last.before) : r.id = last.id /\ Age(r) = 61 * Minute
  /\ \E r \in Range(searchResults) : Age(r) > 0

\* C6: after cleanupResults the store holds at most MAX_RESULTS records; if
\* more than MAX_RESULTS unexpired records were present exactly MAX_RESULTS
\* remain, every record removed for capacity is at most as new as every
\* survivor, and among equal timestamps the earlier-inserted one goes first.
C6_Capacity ==
  AfterCleanup =>
    /\ Len(searchResults) <= MAX_RESULTS
    /\ Len(Young(last.before)) > MAX_RESULTS =>
         /\ Len(searchResults) = MAX_RESULTS
         /\ \A i, j \in 1..Len(last.before) :
              /\ Age(last.before[i]) <= RESULT_EXPIRATION_MS
              /\ last.before[i] \notin Range(searchResults)
              /\ last.before[j] \in Range(searchResults)
              => /\ last.before[i].timestamp <= last.before[j].timestamp
                 /\ last.before[i].timestamp = last.before[j].timestamp => i < j

\* A cleanup that removed, for capacity, one of two records of one timestamp
\* and kept records of a later timestamp
C6_Witness ==
  /\ AfterCleanup
  /\ Len(Young(last.before)) > MAX_RESULTS
  /\ \E i, j \in 1..Len(last.before) :
       /\ last.before[i] \notin Range(searchResults)
       /\ last.before[j] \in Range(searchResults)
       /\ last.before[i].timestamp = last.before[j].timestamp
  /\ \E r, q \in Range(searchResults) : r.timestamp < q.timestamp

\* C7: expired records do not count toward capacity: cleanupResults removes
\* a record of age at most one hour only if more than MAX_RESULTS such
\* records were present, and then as many as exceed MAX_RESULTS.
C7_ExpiredDoNotCount ==
  AfterCleanup =>
    /\ Len(Young(last.before)) <= MAX_RESULTS => searchResults = Young(last.before)
    /\ Len(Young(last.before)) > MAX_RESULTS =>
         /\ Range(searchResults) \subseteq Range(Young(last.before))
         /\ Len(searchResults) = MAX_RESULTS

\* A cleanup of a store over capacity whose unexpired records fit: all of
\* them are kept
C7_Witness ==
  /\ AfterCleanup
  /\ Len(last.before) > MAX_RESULTS
  /\ Len(Young(last.before)) <= MAX_RESULTS
  /\ Len(Young(last.before)) >= 2
  /\ searchResults = Young(last.before)

\* C8: fetch_webpage with an id that has no record after the cleanup, never
\* stored or evicted, answers with the not-found text of that id, which
\* depends on the id alone, launches no browser and lets no exception out.
C8_NotFoundUniform ==
  last.op \in {"fetchFound", "fetchNotFound"} =>
    /\ ~MapHas(searchResults, last.id) =>
         /\ last.op = "fetchNotFound"
         /\ last.text = FetchFailed(FetchFailed(NotFoundMessage(last.id)))
         /\ ~last.launched
         /\ ~fetching.active
    /\ MapHas(searchResults, last.id) => last.op = "fetchFound"

\* A lookup of an id whose record had been evicted before the call
C8_Witness ==
  /\ last.op = "fetchNotFound"
  /\ last.id \in stored
  /\ ~MapHas(last.before, last.id)
  /\ last.text = FetchFailed(FetchFailed(NotFoundMessage(last.id)))

\* C9: every record extractBingSearchResults returns has a non-empty link
\* or a non-empty snippet.
C9_LinkOrSnippet ==
  last.op = "extract" =>
    \A r \in Range(last.results) : r.link # "" \/ r.snippet # ""

\* C10: every record that is returned or stored has a non-empty title,
\* whether of the block pass, of the last-resort pass, the placeholder or
\* the error record.
C10_TitleNonEmpty ==
  \A r \in Range(last.results) \cup Range(searchResults) : r.title # ""

\* A call of searchBing whose two records got their titles from the link's
\* host and from the element's place
C10_Witness ==
  /\ last.op = "searchBing"
  /\ last.doc = <<BUntitled, BEmpty>>
  /\ Len(last.results) = 2
  /\ last.results[1].title = "Result from h.example"
  /\ last.results[2].title = "Result 2"
  /\ Range(last.results) \subseteq Range(searchResults)

\* The block callback gives the fields of r for el at one of the places
FromBlock(r, el, places) ==
  \E index \in places :
    /\ ~Candidate(el, index).skip
    /\ SameFields(Candidate(el, index), r)

\* The last-resort callback gives the link of r for an anchor of el
FromAnchor(r, el) ==
  \E i \in 1..Len(AnchorsOf(el)) : FullLink(AnchorLink(AnchorsOf(el)[i].part, "")) = r.link

\* r can be a record of the element el of a document of n elements
CameFrom(r, el, n) ==
  IF StartsWith(r.id, "result_link_") THEN FromAnchor(r, el) ELSE FromBlock(r, el, 0..(n - 1))

\* The records can be assigned, in their order, to elements of doc that
\* follow each other in document order
InDocumentOrder(results, doc) ==
  \E f \in [1..Len(results) -> 1..Len(doc)] :
    /\ \A i, j \in 1..Len(results) : i < j => f[i] <= f[j]
    /\ \A i \in 1..Len(results) : CameFrom(results[i], doc[f[i]], Len(doc))

\* C11: the records extractBingSearchResults returns are in the document
\* order of the elements they were extracted from, also when blocks matched
\* by different selectors are mixed.
C11_DocumentOrder ==
  last.op = "extract" => InDocumentOrder(last.results, last.doc)

\* A result block: an element some block selector matches that is no
\* advertisement, pagination or message block
IsResultBlock(el) ==
  /\ \E k \in resultSelectors : MatchesSelector(k, el)
  /\ ~IsAd(el) /\ ~IsPagOrMsg(el)

\* An advertisement block of the result list
IsAdBlock(el) == el.tag = "li" /\ el.parent \in {"b_results", "b_topw"} /\ IsAd(el)

ResultBlocks(doc) == {p \in 1..Len(doc) : IsResultBlock(doc[p])}

\* No two result blocks of doc have the same non-empty link
DistinctLinks(doc) ==
  \A p, q \in ResultBlocks(doc) :
    p # q /\ Candidate(doc[p], 0).link = Candidate(doc[q], 0).link
    => Candidate(doc[p], 0).link = ""

\* C12: on markup of k result blocks (no two with the same non-empty link)
\* and any number of advertisement blocks, with numResults >= k,
\* extractBingSearchResults returns exactly k records.
C12_OneRecordPerBlock ==
  /\ last.op = "extract"
  /\ \A p \in 1..Len(last.doc) : IsResultBlock(last.doc[p]) \/ IsAdBlock(last.doc[p])
  /\ DistinctLinks(last.doc)
  /\ last.numResults >= Cardinality(ResultBlocks(last.doc))
  => Len(last.results) = Cardinality(ResultBlocks(last.doc))

\* The parameters that are no tracking parameters, in their order
KeptParams(params) ==
  SelectSeq(params,
            LAMBDA q : q.name \notin {"utm_source", "utm_medium", "utm_campaign", "ref", "source"})

\* An absolute URL's host and path: the path is "/" where there is none
WithPath(rest) == IF Includes(rest, "/") THEN rest ELSE rest \o "/"

\* The link of the one record of a run on the block of input is link
LinkBecomes(input, link) ==
  last.op = "link" /\ last.doc = <<LinkBlock(input)>>
  => Len(last.results) = 1 /\ last.results[1].link = link

\* C13: a protocol-relative link "//host/path" becomes "https://host/path",
\* not a path on the search origin.
C13_ProtocolRelative ==
  \A input \in LinkInputs :
    input.pre = "//" =>
      LinkBecomes(input, "https://" \o WithPath(input.rest) \o QueryText(KeptParams(input.params)))

\* The links that the link resolution rejects as redirect wrappers
IsWrapper(input) == input.pre = "/" /\ input.rest \in {"ck/a", "newtabredir/x"}

\* C14: a root-relative link becomes the search origin followed by its path,
\* and every parseable link loses the tracking parameters utm_source,
\* utm_medium, utm_campaign, ref and source and keeps the others, in their
\* order.
C14_RootRelativeAndTracking ==
  \A input \in LinkInputs :
    /\ input.pre = "/" /\ ~IsWrapper(input) =>
         LinkBecomes(input, "https://cn.bing.com/" \o input.rest
                            \o QueryText(KeptParams(input.params)))
    /\ input.pre = "" =>
         LinkBecomes(input, "https://cn.bing.com/" \o input.rest
                            \o QueryText(KeptParams(input.params)))
    /\ input.pre \in {"https://", "http://"} =>
         LinkBecomes(input, input.pre \o WithPath(input.rest)
                            \o QueryText(KeptParams(input.params)))

\* The run on the link "/foo?utm_source=x", which gives the origin and "/foo"
C14_Witness ==
  /\ last.op = "link"
  /\ last.doc = <<LinkBlock([pre |-> "/", rest |-> "foo",
                             params |-> <<Param("utm_source", "x")>>])>>
  /\ Len(last.results) = 1
  /\ last.results[1].link = "https://cn.bing.com/foo"

(***************************************************************************)
(* C15                                                                     *)
(***************************************************************************)
\* C15: every call of extractBingSearchResults returns a list and raises no
\* exception, whatever the document and numResults are, the documents whose
\* records come from the pass over the anchors included
C15_NoException ==
  last.op = "extract" => ~last.threw

(***************************************************************************)
(* C16                                                                     *)
(***************************************************************************)
\* No record of store is older than one hour at the current time
NoneExpired(store) == \A r \in Range(store) : ~(Age(r) > RESULT_EXPIRATION_MS)

\* C16: cleanupResults at the same clock value once more leaves the store it
\* left; on a store with no expired record and at most MAX_RESULTS records
\* it changes nothing; and it leaves the ID counter as it was.
C16_CleanupIdempotent ==
  AfterCleanup =>
    /\ cleanupResults(searchResults, now) = searchResults
    /\ NoneExpired(last.before) /\ Len(last.before) <= MAX_RESULTS =>
         searchResults = last.before
    /\ resultIdCounter = last.counterBefore

\* The timer's cleanup on a full store of which it removed a part, with
\* records issued before it
C16_Witness ==
  /\ last.op = "timer"
  /\ Len(last.before) = MAX_RESULTS
  /\ 0 < Len(searchResults) /\ Len(searchResults) < Len(last.before)
  /\ resultIdCounter > 0

DistinctIds(results) ==
  \A i, j \in 1..Len(results) : i # j => results[i].id # results[j].id

Extracted ==
  extractBingSearchResults([Here EXCEPT !.store = last.before,
                                        !.counter = last.counterBefore,
                                        !.issued = <<>>, !.stored = {}],
                           last.doc, last.numResults, now, "").results

\* C19: parseBingSearchResults returns a non-empty list on every input: when
\* the extraction yields no record, one placeholder record whose link is the
\* search URL and whose id, of the prefix result_fallback, is in the store;
\* when the extraction yields records, those records and no placeholder.
C19_NeverEmpty ==
  last.op = "parseCall" =>
    /\ ~last.threw
    /\ Len(last.results) >= 1
    /\ Extracted = <<>> =>
         /\ Len(last.results) = 1
         /\ last.results[1].link = RequestUrl("tla")
         /\ StartsWith(last.results[1].id, "result_fallback_")
         /\ MapHas(searchResults, last.results[1].id)
         /\ MapGet(searchResults, last.results[1].id) = last.results[1]
    /\ Extracted # <<>> =>
         /\ Len(last.results) = Len(Extracted)
         /\ \A i \in 1..Len(last.results) :
              /\ i <= Len(Extracted) => SameFields(last.results[i], Extracted[i])
              /\ ~StartsWith(last.results[i].id, "result_fallback_")

(***************************************************************************)
(* C20                                                                     *)
(***************************************************************************)
\* C20: in one run of extractBingSearchResults the number of IDs generated is
\* the number of records stored and the number of records returned: the ID
\* counter advances by one for each record returned and by nothing for a
\* candidate that is discarded.
C20_IdOnlyWhenAccepted ==
  last.op = "extract" =>
    /\ resultIdCounter - last.counterBefore = Len(last.results)
    /\ Len(issued) = Len(last.results)
    /\ Cardinality(stored) = Len(last.results)

(***************************************************************************)
(* C21                                                                     *)
(***************************************************************************)
\* link is a URL of the search origin whose path begins /ck/a or /newtabredir
IsWrapperLink(link) ==
  \E scheme \in {"https://", "http://"}, path \in {"/ck/a", "/newtabredir"} :
    StartsWith(link, scheme \o "cn.bing.com" \o path)

\* C21: no record of the block pass has a link to the redirect wrapper of the
\* search origin (a path beginning /ck/a or /newtabredir), and a block whose
\* link is such a path gives a record with the empty link.
C21_NoWrapperLinks ==
  /\ last.op = "link" =>
       \A i \in 1..Len(last.results) : ~IsWrapperLink(last.results[i].link)
  /\ \A input \in LinkInputs : IsWrapper(input) => LinkBecomes(input, "")

(***************************************************************************)
(* C22                                                                     *)
(***************************************************************************)
\* The trimmed text each of the four title strategies finds in parts: the h2
\* anchor, the .b_tpcn .tptt, the first prominent anchor, the h2
StrategyTexts(parts) ==
  <<Trim(FirstOf(parts, {"h2a"}).text),
    Trim(FirstOf(parts, {"tpcn"}).text),
    Trim(FirstOf(parts, {"title", "tpcn", "h2a", "blank"}).text),
    Trim(FirstOf(parts, {"h2a", "h2"}).text)>>

\* The first non-empty text of texts, or "" when there is none
RECURSIVE FirstText(_)
FirstText(texts) ==
  IF texts = <<>> THEN ""
  ELSE IF Head(texts) # "" THEN Head(texts) ELSE FirstText(Tail(texts))

\* C22: the title of a record of the block pass is the text of the first of
\* the four strategies that finds non-empty text; no later strategy replaces
\* or empties it.
C22_FirstStrategyWins ==
  last.op = "title" /\ FirstText(StrategyTexts(last.doc[1].parts)) # "" =>
    /\ Len(last.results) = 1
    /\ last.results[1].title = FirstText(StrategyTexts(last.doc[1].parts))

(***************************************************************************)
(* C23                                                                     *)
(***************************************************************************)
\* An advertisement, pagination or message element
Excluded(el) == el.cls \cap {"b_ad", "b_pag", "b_msg"} # {} \/ el.inAd

\* An ID of the block pass: prefix result, not result_link nor result_fallback
IsBlockId(id) ==
  StartsWith(id, "result_") /\ ~StartsWith(id, "result_link_")
  /\ ~StartsWith(id, "result_fallback_")

BlockIds(ids) == SelectSeq(ids, IsBlockId)

IdsOf(results) == [i \in 1..Len(results) |-> results[i].id]

\* The run on the document of the call that has just returned without its
\* excluded elements
WithoutExcluded ==
  extractBingSearchResults([Here EXCEPT !.store = last.before,
                                        !.counter = last.counterBefore,
                                        !.issued = <<>>, !.stored = {}],
                           SelectSeq(last.doc, LAMBDA el : ~Excluded(el)),
                           last.numResults, now, "k3x9q2a")

\* C23: in the block pass an element of class b_ad, b_pag or b_msg, or
\* inside a .b_ad container, gives no record, whichever selector matches it:
\* the IDs of the block pass that are generated, stored and returned are
\* those of the run on the document without these elements.
C23_SkippedInBlockPass ==
  last.op = "skip" =>
    /\ BlockIds(issued) = BlockIds(WithoutExcluded.issued)
    /\ {id \in stored : IsBlockId(id)} = {id \in WithoutExcluded.stored : IsBlockId(id)}
    /\ BlockIds(IdsOf(last.results)) = BlockIds(IdsOf(WithoutExcluded.results))

\* A run on <li class="b_algo"> in a .b_ad container followed by a result
\* block, which returns the record of the result block under the first ID
C23_Witness ==
  /\ last.op = "skip"
  /\ last.doc = <<SkipBlock({"b_algo"}, TRUE), BAlgo>>
  /\ last.numResults = 2
  /\ Len(last.results) = 1
  /\ last.results[1].title = "Alpha"
  /\ last.results[1].id = issued[1]

(***************************************************************************)
(* C24                                                                     *)
(***************************************************************************)
\* A call of extractBingSearchResults in a fresh process has just returned
AfterOneRun == last.op \in {"extract", "link", "title", "skip"}

IsLinkId(id) == StartsWith(id, "result_link_")

\* Some selector matches an element of doc that the block pass accepts
BlockPassAccepts(doc) ==
  \E k \in resultSelectors : \E el \in Range(Select(doc, k)) : ~Candidate(el, 0).skip

\* C24: the pass over the anchors runs only when the five selectors have
\* accepted nothing: no run generates or returns both IDs of the prefix
\* result and IDs of the prefix result_link, and a run that generates an ID
\* of the prefix result_link is on a document of which the block pass
\* accepts no element.
C24_LastResortOnlyWhenEmpty ==
  AfterOneRun =>
    /\ ~(\E i, j \in 1..Len(issued) : IsBlockId(issued[i]) /\ IsLinkId(issued[j]))
    /\ ~(\E i, j \in 1..Len(last.results) :
           IsBlockId(last.results[i].id) /\ IsLinkId(last.results[j].id))
    /\ (\E i \in 1..Len(issued) : IsLinkId(issued[i])) =>
         /\ ~BlockPassAccepts(last.doc)
         /\ last.numResults > 0
    /\ BlockPassAccepts(last.doc) /\ last.numResults > 0 =>
         /\ last.results # <<>>
         /\ \A i \in 1..Len(last.results) : IsBlockId(last.results[i].id)

\* A run with numResults = 2 on a result block followed by a container with
\* an anchor: one record, of the block pass, and none for the anchor
C24_Witness ==
  /\ last.op = "extract"
  /\ last.doc = <<BAlgo, BLinks>>
  /\ last.numResults = 2
  /\ Len(last.results) = 1
  /\ IsBlockId(last.results[1].id)
  /\ LinkContainers(last.doc) # <<>>

(***************************************************************************)
(* C25                                                                     *)
(***************************************************************************)
\* C25: the snippet of a record of the block pass has at most 200 characters
\* and the three of the ellipsis, and the snippet of a record of the pass
\* over the anchors at most 300 characters, whichever strategy found it.
C25_SnippetBounded ==
  last.op = "snippet" =>
    \A i \in 1..Len(last.results) :
      /\ IsBlockId(last.results[i].id) => Len(last.results[i].snippet) <= 200 + Len("...")
      /\ IsLinkId(last.results[i].id) => Len(last.results[i].snippet) <= 300

(***************************************************************************)
(* C26                                                                     *)
(***************************************************************************)
\* The lookup has found a record that is at most one hour old
FoundYoung ==
  last.op = "fetchFound" =>
    /\ now - last.results[1].timestamp <= RESULT_EXPIRATION_MS
    /\ fetching.active /\ fetching.id = last.id /\ fetching.url = last.results[1].link
    /\ searchResults = cleanupResults(last.before, now)

\* While the fetch awaits, what it read at the lookup stays as it is
KeepsWhatItRead == fetching.active /\ fetching'.active => fetching' = fetching

\* C26: under every interleaving of searches, fetches and the timer, the
\* lookup of fetch_webpage finds no record older than one hour: the cleanup
\* and the lookup are one step, on the store the cleanup left; and the link
\* the fetch navigates to is the one read at that step, also when the record
\* is removed while the fetch awaits.
C26_LookupAtomic == [] FoundYoung /\ [][KeepsWhatItRead]_vars

\* A fetch in flight whose record, younger than one hour, has been removed
\* from the store by the cleanup of a search that ran meanwhile
C26_Witness ==
  /\ fetching.active
  /\ fetching.url # ""
  /\ ~MapHas(searchResults, fetching.id)
  /\ now - fetching.timestamp <= RESULT_EXPIRATION_MS
  /\ last.op = "parse"

(***************************************************************************)
(* C27                                                                     *)
(***************************************************************************)
\* C27: after every sequence of searches, fetches and timer cleanups the
\* store holds at most MAX_RESULTS records and the CleanupEvery records that
\* may be inserted between two cleanups.
C27_StoreBounded ==
  Len(searchResults) <= MAX_RESULTS + CleanupEvery

(***************************************************************************)
(* C28                                                                     *)
(***************************************************************************)
\* The store holds a record inserted at time 0
HoldsFirst == \E r \in Range(searchResults) : r.timestamp = 0

\* Right after a callback of the timer no record is older than one hour
TimerRemovesOld ==
  last.op = "timer" => \A r \in Range(searchResults) : ~(Age(r) > RESULT_EXPIRATION_MS)

\* C28: while the timer keeps firing, every record is removed in the end: a
\* record inserted at time 0 is absent from some time on after it was stored,
\* whatever searches and fetches happen meanwhile, and after each callback of
\* the timer no record older than one hour is left.
C28_EventuallyRemoved == (HoldsFirst ~> ~HoldsFirst) /\ [] TimerRemovesOld

\* The callback of the timer at 91 minutes, its previous one at 60 minutes,
\* removes a record inserted at time 0 and keeps one inserted later
C28_Witness ==
  /\ last.op = "timer"
  /\ now = 91 * Minute
  /\ \E r \in Range(last.before) : r.timestamp = 0
  /\ \E r \in Range(searchResults) : r.timestamp = 60 * Minute
  /\ ~HoldsFirst

(***************************************************************************)
(* C29                                                                     *)
(***************************************************************************)
\* C29: a run of extractBingSearchResults that ends with an exception leaves
\* the store as it was before the run: no record of the run is stored.
C29_FailedRunStoresNothing ==
  last.op = "extract" /\ last.threw => searchResults = last.before /\ stored = {}

(***************************************************************************)
(* C30                                                                     *)
(***************************************************************************)
\* The element of doc that holds an anchor of the link given
HoldersOf(doc, link) ==
  {el \in Range(doc) : \E i \in 1..Len(el.parts) : FullLink(el.parts[i].href) = link}

\* C30: the pass over the anchors makes no record from an anchor inside an
\* advertisement, pagination or message block: every record of the prefix
\* result_link has its link from an anchor of an element that is none of
\* these.
C30_LastResortSkipsExcluded ==
  last.op = "skip" =>
    \A i \in 1..Len(last.results) :
      IsLinkId(last.results[i].id) =>
        \E el \in HoldersOf(last.doc, last.results[i].link) : ~Excluded(el)

====
